---- MODULE Spec2Model ----
(***************************************************************************)
(* URL-to-object-storage conversion pipeline of oss-url-converter:         *)
(* app.py (task store, convert_url, run_conversion, get_progress) and      *)
(* oss_client.py (extract_urls, process_single_url, download_and_upload,   *)
(* convert_urls_streaming, convert_urls_in_text).                          *)
(*                                                                         *)
(* Strings are sequences of tokens.  "H" stands for the scheme prefix      *)
(* "http://" (or "https://"), " " for any character the URL pattern        *)
(* excludes (whitespace), "e" for the host part of the storage endpoint,   *)
(* every other token for one ordinary URL character.                       *)
(***************************************************************************)
EXTENDS Integers, Sequences, FiniteSets, TLC

VARIABLES tasks, lock, run, wk, poll, resp, objects

vars == <<tasks, lock, run, wk, poll, resp, objects>>

-----------------------------------------------------------------------------
(* Bounds *)

MaxJobs == 1

\* the number of direct uploads
MaxUploads == 3

\* the length of a text in the check of extraction
MaxTextLen == 8

-----------------------------------------------------------------------------
(* Strings *)

\* self.endpoint, 'http://nas2net.cn:4003'
Endpoint == <<"H", "e">>

\* the characters the URL pattern's class [^\s<>"')\]] excludes
IsDelim(c) == c = " "

\* text.strip(): what is left is empty when every character is whitespace
IsBlank(text) == \A i \in 1..Len(text) : IsDelim(text[i])

\* Python `sub in s`
StartsAt(s, sub, i) ==
    /\ i + Len(sub) - 1 <= Len(s)
    /\ \A k \in 1..Len(sub) : s[i + k - 1] = sub[k]

Contains(s, sub) == \E i \in 1..(Len(s) + 1) : StartsAt(s, sub, i)

\* Python s.replace(old, new): left to right, non-overlapping, old non-empty
RECURSIVE ReplaceFrom(_, _, _, _)
ReplaceFrom(s, old, new, i) ==
    IF i > Len(s) THEN <<>>
    ELSE IF StartsAt(s, old, i)
         THEN new \o ReplaceFrom(s, old, new, i + Len(old))
         ELSE <<s[i]>> \o ReplaceFrom(s, old, new, i + 1)

Replace(s, old, new) == ReplaceFrom(s, old, new, 1)

\* end of the maximal run of pattern-class characters that starts at i
RECURSIVE RunEnd(_, _)
RunEnd(text, i) ==
    IF i + 1 <= Len(text) /\ ~IsDelim(text[i + 1]) THEN RunEnd(text, i + 1) ELSE i

\* re.findall(url_pattern, text): the scheme, then one or more class characters
RECURSIVE FindAllFrom(_, _)
FindAllFrom(text, i) ==
    IF i > Len(text) THEN <<>>
    ELSE IF text[i] = "H" /\ i + 1 <= Len(text) /\ ~IsDelim(text[i + 1])
         THEN <<SubSeq(text, i, RunEnd(text, i + 1))>>
                  \o FindAllFrom(text, RunEnd(text, i + 1) + 1)
         ELSE FindAllFrom(text, i + 1)

InSeq(x, s) == \E k \in 1..Len(s) : s[k] = x

\* extract_urls with no seen set: every match is kept
DedupNone(urls, acc) == acc \o urls

\* the seen-set loop of extract_urls
RECURSIVE Dedup(_, _)
Dedup(urls, acc) ==
    IF urls = <<>> THEN acc
    ELSE Dedup(Tail(urls), IF InSeq(Head(urls), acc) THEN acc ELSE Append(acc, Head(urls)))

extract_urls(text) == Dedup(FindAllFrom(text, 1), <<>>)

-----------------------------------------------------------------------------
(* Inputs *)

\* the texts submitted: blank, no URL, a scheme with nothing after it, one URL,
\* one URL twice, a URL that is a prefix of another, two URLs, a URL that
\* holds the endpoint after another host next to an ordinary one
Texts ==
    { <<" ">>,
      <<"a">>,
      <<"H", " ", "a">>,
      <<"H", "a">>,
      <<"H", "a", " ", "H", "a">>,
      <<"H", "a", " ", "H", "a", "b">>,
      <<"H", "a", " ", "H", "b">>,
      <<"H", "a", "H", "e", " ", "H", "b">> }

\* every text of at most MaxTextLen characters over a scheme, an ordinary
\* character and a blank
ExtractTexts == UNION {[1..n -> {"H", "a", " "}] : n \in 0..MaxTextLen}

\* texts of two, five and six distinct URLs, for the worker pool
PoolTexts ==
    { <<"H", "a", " ", "H", "b">>,
      <<"H", "a", " ", "H", "b", " ", "H", "c", " ", "H", "d", " ", "H", "f">>,
      <<"H", "a", " ", "H", "b", " ", "H", "c", " ", "H", "d", " ", "H", "f", " ", "H", "g">> }

\* uuid.uuid4().hex[:8], the random part of an object key
Suffixes == {"x", "y"}

Ids == 1..MaxJobs

\* the positions a URL of a submitted text can have in its list
UrlIndexes == UNION {1..Len(extract_urls(text)) : text \in Texts \cup PoolTexts}

\* the identifiers a poll can name: 0 is never a task's
PollIds == 0..MaxJobs

-----------------------------------------------------------------------------
(* Python values *)

\* an element of a task's urls list: a str, or a dict with the runner's keys
PyStr(s) == [kind |-> "str", str |-> s]

PyDict(original_url, oss_url, status, status_text) ==
    [kind |-> "dict", original_url |-> original_url, oss_url |-> oss_url,
     status |-> status, status_text |-> status_text]

RECURSIVE MapStr(_)
MapStr(urls) == IF urls = <<>> THEN <<>> ELSE <<PyStr(Head(urls))>> \o MapStr(Tail(urls))

NoResult == [original |-> <<>>, converted |-> <<>>, status |-> "none", error |-> "", message |-> ""]

NoData == [absent |-> TRUE]

TerminalStatuses == {"success", "failed", "skipped"}

\* dict.update(kwargs) on a dict
DictUpdate(d, kw) ==
    [f \in DOMAIN d \cup DOMAIN kw |-> IF f \in DOMAIN kw THEN kw[f] ELSE d[f]]

EmptyTasks == [i \in {} |-> NoData]

\* tasks[task_id] = value
SetTask(ts, id, value) == [i \in DOMAIN ts \cup {id} |-> IF i = id THEN value ELSE ts[i]]

-----------------------------------------------------------------------------
(* app.py: the task store *)

\* tasks.get(task_id, {}) under tasks_lock
get_task(ts, task_id) == IF task_id \in DOMAIN ts THEN ts[task_id] ELSE NoData

\* update_task with the new record's completed taken from its total
update_task_completed(ts, task_id, kw) ==
    LET base == IF task_id \in DOMAIN ts THEN ts[task_id]
                ELSE [urls |-> <<>>, total |-> 0, completed |-> kw.total,
                      converted_text |-> <<>>]
    IN  SetTask(ts, task_id, DictUpdate(base, kw))

update_task(ts, task_id, kw) ==
    LET base == IF task_id \in DOMAIN ts THEN ts[task_id]
                ELSE [urls |-> <<>>, total |-> 0, completed |-> 0, converted_text |-> <<>>]
    IN  SetTask(ts, task_id, DictUpdate(base, kw))

-----------------------------------------------------------------------------
(* oss_client.py: one worker per distinct URL *)

DefaultMaxWorkers == 5

\* the endpoint test as url.startswith(self.endpoint)
IsStorageUrlPrefix(url) == StartsAt(url, Endpoint, 1)

\* process_single_url, the endpoint test and its result
IsStorageUrl(url) == Contains(url, Endpoint)

SkippedResult(url) ==
    [original |-> url, converted |-> url, status |-> "skipped", error |-> "",
     message |-> "already OSS"]

SuccessResult(url, oss_url) ==
    [original |-> url, converted |-> oss_url, status |-> "success", error |-> "", message |-> ""]

FailedResult(url, error) ==
    [original |-> url, converted |-> url, status |-> "failed", error |-> error, message |-> ""]

\* the presigned URL of an uploaded object: the endpoint, then the key
PresignedUrl(suffix) == Endpoint \o <<suffix>>

\* upload_file, lines 48-52: the key derived from the temporary file's name,
\* whose random part and the uuid's are one token here
DerivedKey(suffix) == <<suffix>>

\* the bucket: for every key, the number of times an object was put under it
EmptyObjects == [k \in {} |-> 0]

\* s3_client.upload_file / upload_fileobj: a put replaces what the key held
PutObject(objs, key) ==
    [k \in DOMAIN objs \cup {key} |->
        IF k = key THEN (IF k \in DOMAIN objs THEN objs[k] + 1 ELSE 1) ELSE objs[k]]

NewWorker(url) == [url |-> url, st |-> "queued", fetches |-> 0, uploads |-> 0,
                   result |-> NoResult, yielded |-> FALSE]

RECURSIVE SubmitAll(_)
SubmitAll(urls) == IF urls = <<>> THEN <<>> ELSE <<NewWorker(Head(urls))>> \o SubmitAll(Tail(urls))

Running(j) == {i \in 1..Len(wk[j]) : wk[j][i].st \in {"fetch", "upload"}}

Finished(j) == {i \in 1..Len(wk[j]) : wk[j][i].st \in {"done", "raised"}}

\* a pool with no max_workers limit: the next queued call starts at once
WorkerStartUnbounded(j, i) ==
    /\ i \in 1..Len(wk[j])
    /\ wk[j][i].st = "queued"
    /\ \A k \in 1..(i - 1) : wk[j][k].st # "queued"
    /\ wk' = [wk EXCEPT ![j][i] =
                 IF IsStorageUrl(wk[j][i].url)
                 THEN [@ EXCEPT !.st = "done", !.result = SkippedResult(wk[j][i].url)]
                 ELSE [@ EXCEPT !.st = "fetch"]]
    /\ UNCHANGED <<tasks, lock, run, poll, resp, objects>>

\* a pool thread takes the next queued call: process_single_url up to its
\* first return (the skip) or up to the call of download_and_upload
WorkerStart(j, i) ==
    /\ i \in 1..Len(wk[j])
    /\ wk[j][i].st = "queued"
    /\ \A k \in 1..(i - 1) : wk[j][k].st # "queued"
    /\ Cardinality(Running(j)) < DefaultMaxWorkers
    /\ wk' = [wk EXCEPT ![j][i] =
                 IF IsStorageUrl(wk[j][i].url)
                 THEN [@ EXCEPT !.st = "done", !.result = SkippedResult(wk[j][i].url)]
                 ELSE [@ EXCEPT !.st = "fetch"]]
    /\ UNCHANGED <<tasks, lock, run, poll, resp, objects>>

\* download_and_upload with a loop around requests.get: a failed fetch is
\* made again
WorkerFetchRetry(j, i) ==
    /\ i \in 1..Len(wk[j])
    /\ wk[j][i].st = "fetch"
    /\ \E ok \in BOOLEAN :
          wk' = [wk EXCEPT ![j][i] =
                    IF ok
                    THEN [@ EXCEPT !.st = "upload", !.fetches = @ + 1]
                    ELSE [@ EXCEPT !.fetches = @ + 1]]
    /\ UNCHANGED <<tasks, lock, run, poll, resp, objects>>

\* download_and_upload: requests.get and the copy to the temporary file
WorkerFetch(j, i) ==
    /\ i \in 1..Len(wk[j])
    /\ wk[j][i].st = "fetch"
    /\ \E ok \in BOOLEAN :
          wk' = [wk EXCEPT ![j][i] =
                    IF ok
                    THEN [@ EXCEPT !.st = "upload", !.fetches = @ + 1]
                    ELSE [@ EXCEPT !.st = "done", !.fetches = @ + 1,
                                   !.result = FailedResult(wk[j][i].url, "download failed")]]
    /\ UNCHANGED <<tasks, lock, run, poll, resp, objects>>

\* download_and_upload: upload_file, then process_single_url's classification
WorkerUpload(j, i) ==
    /\ i \in 1..Len(wk[j])
    /\ wk[j][i].st = "upload"
    /\ \/ \E suffix \in Suffixes :
             /\ wk' = [wk EXCEPT ![j][i] =
                          [@ EXCEPT !.st = "done", !.uploads = @ + 1,
                                    !.result = SuccessResult(wk[j][i].url, PresignedUrl(suffix))]]
             /\ objects' = PutObject(objects, DerivedKey(suffix))
       \/ /\ wk' = [wk EXCEPT ![j][i] =
                       [@ EXCEPT !.st = "done", !.uploads = @ + 1,
                                 !.result = FailedResult(wk[j][i].url, "upload failed")]]
          /\ objects' = objects
    /\ UNCHANGED <<tasks, lock, run, poll, resp>>

\* an exception that escapes process_single_url during the fetch or the
\* upload it was making: the future holds it
WorkerFault(j, i) ==
    /\ i \in 1..Len(wk[j])
    /\ wk[j][i].st \in {"fetch", "upload"}
    /\ wk' = [wk EXCEPT ![j][i] =
                 IF wk[j][i].st = "fetch"
                 THEN [@ EXCEPT !.st = "raised", !.fetches = @ + 1]
                 ELSE [@ EXCEPT !.st = "raised", !.uploads = @ + 1]]
    /\ UNCHANGED <<tasks, lock, run, poll, resp, objects>>

-----------------------------------------------------------------------------
(* oss_client.py: convert_urls_streaming, the generator *)

\* the body up to the first wait: extract, then submit every URL
GenBegin(text) == SubmitAll(extract_urls(text))

\* future.result() with no except branch around it
FutureResultNoExcept(w) == w.result

\* future.result() of a finished future, or the except branch
FutureResult(w) ==
    IF w.st = "raised" THEN FailedResult(w.url, "worker fault") ELSE w.result

\* the finished futures as_completed can hand out next
Ready(j) == {i \in Finished(j) : ~wk[j][i].yielded}

Exhausted(j) == \A i \in 1..Len(wk[j]) : wk[j][i].yielded

-----------------------------------------------------------------------------
(* app.py: run_conversion *)

StatusText(status) ==
    CASE status = "success" -> "converted"
      [] status = "failed"  -> "conversion failed"
      [] status = "skipped" -> "already OSS"
      [] OTHER -> status

\* lines 189-191: the replacement in the runner's own copy of the text
\* (url_mapping is written there and never read)
ApplyResult(converted_text, r) ==
    IF r.status = "success" THEN Replace(converted_text, r.original, r.converted)
    ELSE converted_text

\* url_info.get('original_url') == original_url: a str has no get
ScanStops(url_info, original_url) ==
    url_info.kind = "str" \/ url_info.original_url = original_url

\* the index the for loop of lines 198-204 stops at, 0 when it runs out
ScanUrls(urls, original_url) ==
    IF \E i \in 1..Len(urls) : ScanStops(urls[i], original_url)
    THEN CHOOSE i \in 1..Len(urls) :
            /\ ScanStops(urls[i], original_url)
            /\ \A k \in 1..(i - 1) : ~ScanStops(urls[k], original_url)
    ELSE 0

\* line 213: u['status'] of a str raises
CountRaises(urls) == \E i \in 1..Len(urls) : urls[i].kind = "str"

CountCompleted(urls) ==
    Cardinality({i \in 1..Len(urls) : urls[i].status \in TerminalStatuses})

\* lines 195-214 with a scan that takes a str equal to the URL for its record
CriticalLenient(task, r, converted_text) ==
    LET rec  == PyDict(r.original, r.converted, r.status, StatusText(r.status))
        urls == [i \in 1..Len(task.urls) |->
                    IF task.urls[i] = PyStr(r.original) THEN rec ELSE task.urls[i]]
    IN  [task |-> [task EXCEPT !.urls = urls,
                               !.completed = Cardinality({i \in 1..Len(urls) : urls[i].kind = "dict"}),
                               !.converted_text = converted_text],
         raised |-> FALSE]

\* lines 195-214 on the task dict: the dict after them and whether they raised
Critical(task, r, converted_text) ==
    LET hit  == ScanUrls(task.urls, r.original)
        rec  == PyDict(r.original, r.converted, r.status, StatusText(r.status))
        urls == IF hit = 0 THEN Append(task.urls, rec)
                ELSE [task.urls EXCEPT ![hit] = rec]
    IN  IF hit # 0 /\ task.urls[hit].kind = "str"
        THEN [task |-> task, raised |-> TRUE]
        ELSE IF CountRaises(urls)
        THEN [task |-> [task EXCEPT !.urls = urls], raised |-> TRUE]
        ELSE [task |-> [task EXCEPT !.urls = urls,
                                    !.completed = CountCompleted(urls),
                                    !.converted_text = converted_text],
              raised |-> FALSE]

-----------------------------------------------------------------------------
(* State *)

NoRun == [kind |-> "none", pc |-> "none", text |-> <<>>, converted_text |-> <<>>,
          emitted |-> <<>>, last |-> NoResult, returned |-> FALSE]

IdlePoll == [pc |-> "idle", id |-> 0, total |-> 0, completed |-> 0,
             converted_text |-> <<>>, states |-> {}]

\* the last response a caller got: req is the text or identifier it sent
NoResp == [op |-> "none", req |-> <<>>, code |-> 0, msg |-> "", data |-> NoData]

Init ==
    /\ tasks = EmptyTasks
    /\ lock = 0
    /\ run = [j \in Ids |-> NoRun]
    /\ wk = [j \in Ids |-> <<>>]
    /\ poll = IdlePoll
    /\ resp = NoResp
    /\ objects = EmptyObjects

\* create_task_id: an id no task or call has had
FreeId(j) == run[j].kind = "none" /\ \A k \in 1..(j - 1) : run[k].kind # "none"

\* the task states a poller that holds the task has been able to see
Observe(pl, ts) ==
    IF pl.pc # "idle" /\ pl.id \in DOMAIN ts
    THEN [pl EXCEPT !.states = @ \cup {ts[pl.id]}]
    ELSE pl

-----------------------------------------------------------------------------
(* app.py: convert_url *)

\* lines 149-167 with update_task ahead of the total == 0 return
SubmitNoTaskCreates(text) ==
    /\ IsBlank(text) \/ Len(extract_urls(text)) = 0
    /\ resp' = IF IsBlank(text)
               THEN [op |-> "convert_url", req |-> text, code |-> 400, msg |-> "text empty", data |-> NoData]
               ELSE [op |-> "convert_url", req |-> text, code |-> 200, msg |-> "",
                     data |-> [task_id |-> 0, total |-> 0, urls |-> <<>>,
                               converted_text |-> text]]
    /\ tasks' = IF IsBlank(text) THEN tasks
                ELSE update_task(tasks, 1, [urls |-> <<>>, total |-> 0, converted_text |-> text])
    /\ UNCHANGED <<lock, run, wk, poll, objects>>

\* lines 149-167: the text is blank, or holds no URL (a request with no
\* 'text' key gets the same 400 with another message)
SubmitNoTask(text) ==
    /\ IsBlank(text) \/ Len(extract_urls(text)) = 0
    /\ resp' = IF IsBlank(text)
               THEN [op |-> "convert_url", req |-> text, code |-> 400, msg |-> "text empty", data |-> NoData]
               ELSE [op |-> "convert_url", req |-> text, code |-> 200, msg |-> "",
                     data |-> [task_id |-> 0, total |-> 0, urls |-> <<>>,
                               converted_text |-> text]]
    /\ UNCHANGED <<tasks, lock, run, wk, poll, objects>>

\* lines 149-217: extraction, update_task under the lock, thread.start()
SubmitTask(text, j) ==
    LET urls == extract_urls(text) IN
    /\ ~IsBlank(text)
    /\ Len(urls) # 0
    /\ FreeId(j)
    /\ lock = 0
    /\ tasks' = update_task(tasks, j, [urls |-> MapStr(urls), total |-> Len(urls),
                                       converted_text |-> text])
    /\ run' = [run EXCEPT ![j] = [NoRun EXCEPT !.kind = "task", !.pc = "start",
                                               !.text = text]]
    /\ poll' = Observe(poll, tasks')
    /\ UNCHANGED <<lock, wk, resp, objects>>

\* lines 219-227 behind a thread.join(): the response waits for the workers
SubmitReturnJoins(j) ==
    /\ run[j].kind = "task"
    /\ ~run[j].returned
    /\ wk[j] # <<>>
    /\ \A i \in 1..Len(wk[j]) : wk[j][i].st \in {"done", "raised"}
    /\ run' = [run EXCEPT ![j].returned = TRUE]
    /\ resp' = [op |-> "convert_url", req |-> run[j].text, code |-> 200, msg |-> "",
                data |-> [task_id |-> j, total |-> Len(extract_urls(run[j].text)),
                          urls |-> MapStr(extract_urls(run[j].text)),
                          converted_text |-> run[j].text]]
    /\ UNCHANGED <<tasks, lock, wk, poll, objects>>

\* lines 219-227: the response of a submission that created a task
SubmitReturn(j) ==
    /\ run[j].kind = "task"
    /\ ~run[j].returned
    /\ run' = [run EXCEPT ![j].returned = TRUE]
    /\ resp' = [op |-> "convert_url", req |-> run[j].text, code |-> 200, msg |-> "",
                data |-> [task_id |-> j, total |-> Len(extract_urls(run[j].text)),
                          urls |-> MapStr(extract_urls(run[j].text)),
                          converted_text |-> run[j].text]]
    /\ UNCHANGED <<tasks, lock, wk, poll, objects>>

-----------------------------------------------------------------------------
(* app.py: run_conversion, the background thread *)

\* lines 175-178: the thread starts the generator, which submits the workers
RunnerBegin(j) ==
    /\ run[j].kind = "task"
    /\ run[j].pc = "start"
    /\ run' = [run EXCEPT ![j].pc = "wait", ![j].converted_text = run[j].text]
    /\ wk' = [wk EXCEPT ![j] = GenBegin(run[j].text)]
    /\ UNCHANGED <<tasks, lock, poll, resp, objects>>

\* one turn of the for loop of line 178 up to the lock: the generator ends,
\* or yields the result of a finished future and lines 179-191 run
RunnerNext(j) ==
    /\ run[j].kind = "task"
    /\ run[j].pc = "wait"
    /\ IF Exhausted(j)
       THEN /\ run' = [run EXCEPT ![j].pc = "done"]
            /\ wk' = wk
       ELSE \E i \in Ready(j) :
              LET r == FutureResult(wk[j][i]) IN
              /\ wk' = [wk EXCEPT ![j][i].yielded = TRUE]
              /\ run' = [run EXCEPT ![j].pc = "lock",
                                    ![j].last = r,
                                    ![j].emitted = Append(@, r),
                                    ![j].converted_text = ApplyResult(@, r)]
    /\ UNCHANGED <<tasks, lock, poll, resp, objects>>

\* line 194 with no lock taken: the update is entered at once
RunnerAcquireNoLock(j) ==
    /\ run[j].pc = "lock"
    /\ lock' = j
    /\ run' = [run EXCEPT ![j].pc = "crit"]
    /\ UNCHANGED <<tasks, wk, poll, resp, objects>>

\* line 194: with tasks_lock
RunnerAcquire(j) ==
    /\ run[j].pc = "lock"
    /\ lock = 0
    /\ lock' = j
    /\ run' = [run EXCEPT ![j].pc = "crit"]
    /\ UNCHANGED <<tasks, wk, poll, resp, objects>>

\* lines 195-214 with acquire() and release() in place of the with
\* statement: an exception leaves the lock held
RunnerCriticalNoRelease(j) ==
    /\ run[j].pc = "crit"
    /\ lock = j
    /\ LET c == Critical(get_task(tasks, j), run[j].last, run[j].converted_text) IN
          /\ tasks' = IF j \in DOMAIN tasks THEN SetTask(tasks, j, c.task) ELSE tasks
          /\ run' = [run EXCEPT ![j].pc = IF c.raised THEN "dead" ELSE "wait"]
          /\ lock' = IF c.raised THEN j ELSE 0
    /\ poll' = Observe(poll, tasks')
    /\ UNCHANGED <<wk, resp, objects>>

\* lines 195-214 and the release of the lock; an exception ends the thread
RunnerCritical(j) ==
    /\ run[j].pc = "crit"
    /\ lock = j
    /\ LET c == Critical(get_task(tasks, j), run[j].last, run[j].converted_text) IN
          /\ tasks' = IF j \in DOMAIN tasks THEN SetTask(tasks, j, c.task) ELSE tasks
          /\ run' = [run EXCEPT ![j].pc = IF c.raised THEN "dead" ELSE "wait"]
    /\ lock' = 0
    /\ poll' = Observe(poll, tasks')
    /\ UNCHANGED <<wk, resp, objects>>

-----------------------------------------------------------------------------
(* oss_client.py: convert_urls_in_text *)

\* lines 268-272: extraction and the start of the generator
CallSync(text, j) ==
    /\ FreeId(j)
    /\ run' = [run EXCEPT ![j] = [NoRun EXCEPT !.kind = "sync", !.pc = "wait",
                                               !.text = text, !.converted_text = text]]
    /\ wk' = [wk EXCEPT ![j] = GenBegin(text)]
    /\ UNCHANGED <<tasks, lock, poll, resp, objects>>

CountStatus(results, status) ==
    Cardinality({k \in 1..Len(results) : results[k].status = status})

\* one turn of the for loop of line 272 (lines 273-275), or lines 277-286
SyncNext(j) ==
    /\ run[j].kind = "sync"
    /\ run[j].pc = "wait"
    /\ IF Exhausted(j)
       THEN /\ run' = [run EXCEPT ![j].pc = "done", ![j].returned = TRUE]
            /\ wk' = wk
            /\ resp' = [op |-> "convert_urls_in_text", req |-> run[j].text, code |-> 200, msg |-> "",
                        data |-> [original_text |-> run[j].text,
                                  converted_text |-> run[j].converted_text,
                                  conversions |-> run[j].emitted,
                                  total_urls |-> Len(extract_urls(run[j].text)),
                                  successful |-> CountStatus(run[j].emitted, "success"),
                                  failed |-> CountStatus(run[j].emitted, "failed"),
                                  skipped |-> CountStatus(run[j].emitted, "skipped")]]
       ELSE \E i \in Ready(j) :
              LET r == FutureResult(wk[j][i]) IN
              /\ wk' = [wk EXCEPT ![j][i].yielded = TRUE]
              /\ run' = [run EXCEPT ![j].last = r,
                                    ![j].emitted = Append(@, r),
                                    ![j].converted_text = ApplyResult(@, r)]
              /\ resp' = resp
    /\ UNCHANGED <<tasks, lock, poll, objects>>

-----------------------------------------------------------------------------
(* app.py: get_progress *)

\* lines 236-239 with tasks.setdefault(task_id, {}) in place of tasks.get
PollGetCreates(id) ==
    /\ poll.pc = "idle"
    /\ lock = 0
    /\ id \notin DOMAIN tasks
    /\ tasks' = SetTask(tasks, id, NoData)
    /\ resp' = [op |-> "progress", req |-> id, code |-> 404,
                msg |-> "no such task", data |-> NoData]
    /\ poll' = IdlePoll
    /\ UNCHANGED <<lock, run, wk, objects>>

\* lines 236-239: get_task under the lock; an empty dict is the 404
PollGet(id) ==
    /\ poll.pc = "idle"
    /\ lock = 0
    /\ LET task == get_task(tasks, id) IN
          IF task = NoData
          THEN /\ resp' = [op |-> "progress", req |-> id, code |-> 404,
                           msg |-> "no such task", data |-> NoData]
               /\ poll' = IdlePoll
          ELSE /\ resp' = resp
               /\ poll' = [IdlePoll EXCEPT !.pc = "total", !.id = id, !.states = {task}]
    /\ UNCHANGED <<tasks, lock, run, wk, objects>>

\* line 245: task.get('total', 0), read without the lock
PollTotal ==
    /\ poll.pc = "total"
    /\ poll' = [poll EXCEPT !.pc = "completed", !.total = tasks[poll.id].total]
    /\ UNCHANGED <<tasks, lock, run, wk, resp, objects>>

\* line 246
PollCompleted ==
    /\ poll.pc = "completed"
    /\ poll' = [poll EXCEPT !.pc = "text", !.completed = tasks[poll.id].completed]
    /\ UNCHANGED <<tasks, lock, run, wk, resp, objects>>

\* line 247
PollText ==
    /\ poll.pc = "text"
    /\ poll' = [poll EXCEPT !.pc = "urls",
                            !.converted_text = tasks[poll.id].converted_text]
    /\ UNCHANGED <<tasks, lock, run, wk, resp, objects>>

\* lines 248 and 241: the urls list as jsonify serialises it, and the response
PollUrls ==
    /\ poll.pc = "urls"
    /\ resp' = [op |-> "progress", req |-> poll.id, code |-> 200, msg |-> "",
                data |-> [task_id |-> poll.id, total |-> poll.total,
                          completed |-> poll.completed,
                          converted_text |-> poll.converted_text,
                          urls |-> tasks[poll.id].urls]]
    /\ poll' = IdlePoll
    /\ UNCHANGED <<tasks, lock, run, wk, objects>>

-----------------------------------------------------------------------------
(* app.py: upload_file, and oss_client.py: upload_from_stream *)

\* the names a file is sent under: none, plain ones, one with a path, one of
\* characters secure_filename drops
Filenames == {"", "test.txt", "a.png", "../test.txt", "??"}

\* werkzeug's secure_filename on these names
secure_filename(filename) ==
    CASE filename = "../test.txt" -> "test.txt"
      [] filename = "??" -> ""
      [] OTHER -> filename

\* upload_from_stream, lines 84-85: f"{name}_{uuid.uuid4().hex[:8]}{ext}"
StreamKey(filename, suffix) == <<filename, suffix>>

RECURSIVE TotalPuts(_, _)
TotalPuts(objs, keys) ==
    IF keys = {} THEN 0
    ELSE LET k == CHOOSE x \in keys : TRUE IN objs[k] + TotalPuts(objs, keys \ {k})

\* app.py lines 100-134 with oss_client.py lines 75-106: the request and its
\* response; suffix is the uuid drawn for the key
UploadFile(file_filename, suffix) ==
    LET filename == IF secure_filename(file_filename) = "" THEN file_filename
                    ELSE secure_filename(file_filename)
        key == StreamKey(filename, suffix)
    IN  /\ TotalPuts(objects, DOMAIN objects) < MaxUploads
        /\ \/ /\ file_filename = ""
              /\ resp' = [op |-> "upload_file", req |-> file_filename, code |-> 400,
                          msg |-> "no file", data |-> NoData]
              /\ objects' = objects
           \/ /\ file_filename # ""
              /\ objects' = PutObject(objects, key)
              /\ resp' = [op |-> "upload_file", req |-> file_filename, code |-> 200, msg |-> "",
                          data |-> [url |-> Endpoint \o key, filename |-> filename,
                                    object_key |-> key]]
           \/ /\ file_filename # ""
              /\ resp' = [op |-> "upload_file", req |-> file_filename, code |-> 500,
                          msg |-> "upload failed", data |-> NoData]
              /\ objects' = objects
        /\ UNCHANGED <<tasks, lock, run, wk, poll>>

-----------------------------------------------------------------------------

Next ==
    \/ \E text \in Texts : SubmitNoTask(text)
    \/ \E text \in Texts, j \in Ids : SubmitTask(text, j)
    \/ \E j \in Ids : SubmitReturn(j)
    \/ \E j \in Ids : RunnerBegin(j)
    \/ \E j \in Ids : RunnerNext(j)
    \/ \E j \in Ids : RunnerAcquire(j)
    \/ \E j \in Ids : RunnerCritical(j)
    \/ \E text \in Texts, j \in Ids : CallSync(text, j)
    \/ \E j \in Ids : SyncNext(j)
    \/ \E j \in Ids, i \in UrlIndexes : WorkerStart(j, i)
    \/ \E j \in Ids, i \in UrlIndexes : WorkerFetch(j, i)
    \/ \E j \in Ids, i \in UrlIndexes : WorkerUpload(j, i)
    \/ \E j \in Ids, i \in UrlIndexes : WorkerFault(j, i)
    \/ \E id \in PollIds : PollGet(id)
    \/ PollTotal
    \/ PollCompleted
    \/ PollText
    \/ PollUrls

Spec == Init /\ [][Next]_vars

\* the worker pool of one generator over a text of up to six URLs
PoolNext ==
    \/ \E text \in PoolTexts : CallSync(text, 1)
    \/ \E i \in UrlIndexes : WorkerStart(1, i)
    \/ \E i \in UrlIndexes : WorkerFetch(1, i)
    \/ \E i \in UrlIndexes : WorkerUpload(1, i)
    \/ \E i \in UrlIndexes : WorkerFault(1, i)

PoolSpec == Init /\ [][PoolNext]_vars

\* the first submission to a fresh server, of every short text: extraction
\* and task creation
ExtractNext ==
    \/ resp = NoResp /\ tasks = EmptyTasks /\ \E text \in ExtractTexts : SubmitNoTask(text)
    \/ resp = NoResp /\ tasks = EmptyTasks /\ \E text \in ExtractTexts : SubmitTask(text, 1)
    \/ SubmitReturn(1)

ExtractSpec == Init /\ [][ExtractNext]_vars

\* two submissions of one-URL texts, their runners and their workers
TwoIds == 1..2

TwoTexts == { <<"H", "a">>, <<"H", "b">>, <<"H", "e">> }

TwoInit ==
    /\ tasks = EmptyTasks
    /\ lock = 0
    /\ run = [j \in TwoIds |-> NoRun]
    /\ wk = [j \in TwoIds |-> <<>>]
    /\ poll = IdlePoll
    /\ resp = NoResp
    /\ objects = EmptyObjects

TwoNext ==
    \/ \E text \in TwoTexts, j \in TwoIds : SubmitTask(text, j)
    \/ \E j \in TwoIds : SubmitReturn(j)
    \/ \E j \in TwoIds : RunnerBegin(j)
    \/ \E j \in TwoIds : RunnerNext(j)
    \/ \E j \in TwoIds : RunnerAcquire(j)
    \/ \E j \in TwoIds : RunnerCritical(j)
    \/ \E j \in TwoIds, i \in UrlIndexes : WorkerStart(j, i)
    \/ \E j \in TwoIds, i \in UrlIndexes : WorkerFetch(j, i)
    \/ \E j \in TwoIds, i \in UrlIndexes : WorkerUpload(j, i)
    \/ \E j \in TwoIds, i \in UrlIndexes : WorkerFault(j, i)

TwoSpec == TwoInit /\ [][TwoNext]_vars

\* direct uploads only
UploadNext == \E file_filename \in Filenames, suffix \in Suffixes : UploadFile(file_filename, suffix)

UploadSpec == Init /\ [][UploadNext]_vars

-----------------------------------------------------------------------------
(* Claims *)

Tasks == {j \in Ids : run[j].kind = "task"}

\* the runner thread of task j has ended, by return or by an exception
Stopped(j) == run[j].pc \in {"done", "dead"}

AllWorkersDone(j) == wk[j] # <<>> /\ \A i \in 1..Len(wk[j]) : wk[j][i].st \in {"done", "raised"}

IsTerminal(url_info) == url_info.kind = "dict" /\ url_info.status \in TerminalStatuses

AllTerminal(urls) == \A i \in 1..Len(urls) : IsTerminal(urls[i])

\* C1: a runner does not stop before it has consumed one result per URL of
\* its task, and when it has stopped the task's completed equals its total.
C1_RunnerRunsToCompletion ==
    \A j \in Tasks :
        Stopped(j) =>
            /\ Len(run[j].emitted) = tasks[j].total
            /\ tasks[j].completed = tasks[j].total

\* C2: completed never decreases from one state to the next, and in every
\* state completed = total exactly when every element of urls is a record
\* with a terminal status.
C2_CompletedMonotoneAndExact ==
    [][\A j \in DOMAIN tasks' :
          /\ j \in DOMAIN tasks => tasks'[j].completed >= tasks[j].completed
          /\ (tasks'[j].completed = tasks'[j].total) <=> AllTerminal(tasks'[j].urls)]_vars

\* the runner of a task has been through its update while every worker of the
\* task has returned
C2_Witness ==
    \E j \in Tasks :
        /\ Stopped(j)
        /\ run[j].emitted # <<>>
        /\ AllWorkersDone(j)
        /\ Len(wk[j]) = 2
        /\ tasks[j].completed # tasks[j].total
        /\ ~AllTerminal(tasks[j].urls)

\* C3: while no worker of a task has finished, the task's urls is one record
\* per distinct extracted URL, in extraction order, with original_url set and
\* status pending, completed is 0 and total is the number of distinct URLs.
C3_PendingRecordsAtCreation ==
    \A j \in DOMAIN tasks :
        Finished(j) = {} =>
            LET urls == extract_urls(run[j].text) IN
            /\ tasks[j].total = Len(urls)
            /\ tasks[j].completed = 0
            /\ Len(tasks[j].urls) = Len(urls)
            /\ \A i \in 1..Len(urls) :
                  /\ tasks[j].urls[i].kind = "dict"
                  /\ tasks[j].urls[i].original_url = urls[i]
                  /\ tasks[j].urls[i].status = "pending"

\* C4: the step in which the runner records a success for URL u replaces
\* every occurrence of u in the task's converted_text by the storage URL and
\* alters nothing else of it.
C4_SuccessReplacesInTask ==
    [][\A j \in Tasks :
          (run[j].pc = "crit" /\ run'[j].pc # "crit" /\ run[j].last.status = "success")
              => tasks'[j].converted_text =
                     Replace(tasks[j].converted_text, run[j].last.original,
                             run[j].last.converted)]_vars

\* C5: what a poll returns for a task (total, completed, converted_text and
\* the urls records) is one state the task was in between the poll's get_task
\* and its response, never fields of two different states.
C5_NoTornRead ==
    [][(poll.pc = "urls" /\ poll'.pc = "idle") =>
          \E st \in poll.states :
              /\ resp'.data.total = st.total
              /\ resp'.data.completed = st.completed
              /\ resp'.data.converted_text = st.converted_text
              /\ resp'.data.urls = st.urls]_vars

\* a poller holds the task and is between its reads while the runner of the
\* same task is inside its critical section
C5_Witness ==
    /\ poll.pc \in {"completed", "text", "urls"}
    /\ poll.id \in Tasks
    /\ run[poll.id].pc = "crit"
    /\ lock = poll.id

\* C6: the generator emits results of the text's distinct URLs only and none
\* twice, the result of a URL whose worker raised is a failed result that
\* carries the exception's description, and a generator that has run to its
\* end has emitted exactly one result per distinct URL.
C6_OneResultPerUrl ==
    \A j \in Ids :
        LET urls == extract_urls(run[j].text)
            em   == run[j].emitted
        IN  /\ \A k \in 1..Len(em) : InSeq(em[k].original, urls)
            /\ \A k, l \in 1..Len(em) : em[k].original = em[l].original => k = l
            /\ \A k \in 1..Len(em) : \A i \in 1..Len(wk[j]) :
                  (wk[j][i].url = em[k].original /\ wk[j][i].st = "raised")
                      => em[k] = FailedResult(wk[j][i].url, "worker fault")
            /\ (run[j].kind = "sync" /\ run[j].pc = "done") => Len(em) = Len(urls)

\* a generator has run to its end over two URLs, the first result it emitted
\* being that of a worker that raised and the second a success
C6_Witness ==
    \E j \in Ids :
        /\ run[j].kind = "sync" /\ run[j].pc = "done"
        /\ Len(run[j].emitted) = 2
        /\ \E i \in 1..Len(wk[j]) :
              wk[j][i].st = "raised" /\ run[j].emitted[1].original = wk[j][i].url
        /\ run[j].emitted[2].status = "success"

\* C7: a worker whose URL contains the endpoint makes no fetch and no upload
\* and returns skipped, and the step in which a consumer takes or records a
\* skipped result leaves converted_text as it was.
C7_StorageUrlSkipped ==
    [][/\ \A j \in Ids : \A i \in 1..Len(wk'[j]) :
             Contains(wk'[j][i].url, Endpoint) =>
                 /\ wk'[j][i].fetches = 0
                 /\ wk'[j][i].uploads = 0
                 /\ wk'[j][i].st \in {"queued", "done"}
                 /\ wk'[j][i].st = "done" => wk'[j][i].result.status = "skipped"
       /\ \A j \in Ids :
             (Len(run'[j].emitted) > Len(run[j].emitted) /\ run'[j].last.status = "skipped")
                 => run'[j].converted_text = run[j].converted_text
       /\ \A j \in Tasks :
             (run[j].pc = "crit" /\ run[j].last.status = "skipped")
                 => tasks'[j].converted_text = tasks[j].converted_text]_vars

\* the runner has been through its update for the skipped result of a URL
\* that holds the endpoint after another host
C7_Witness ==
    \E j \in Tasks :
        /\ run[j].pc = "dead"
        /\ run[j].last.status = "skipped"
        /\ Contains(run[j].last.original, Endpoint)
        /\ ~StartsAt(run[j].last.original, Endpoint, 1)
        /\ \E i \in 1..Len(wk[j]) :
              wk[j][i].url = run[j].last.original /\ wk[j][i].fetches = 0

\* C8 as stated: a submission of a text with no URL is answered with
\* total = 0, and creates no task and starts no runner.
C8_ZeroUrlsTotalZero ==
    [][(resp' # resp /\ resp'.op = "convert_url" /\ extract_urls(resp'.req) = <<>>) =>
          /\ resp'.code = 200
          /\ resp'.data # NoData
          /\ resp'.data.total = 0
          /\ tasks' = tasks /\ run' = run /\ wk' = wk]_vars

\* C8 amended: a submission of a text with no URL that is not blank is
\* answered with total = 0, one of a blank text with the error 400 and no
\* total; both create no task and start no runner.
C8_ZeroUrlsNoTask ==
    [][(resp' # resp /\ resp'.op = "convert_url" /\ extract_urls(resp'.req) = <<>>) =>
          /\ IF IsBlank(resp'.req)
             THEN resp'.code = 400 /\ resp'.data = NoData
             ELSE /\ resp'.code = 200
                  /\ resp'.data = [task_id |-> 0, total |-> 0, urls |-> <<>>,
                                   converted_text |-> resp'.req]
          /\ tasks' = tasks /\ run' = run /\ wk' = wk]_vars

\* a text with no URL, not blank, has been answered while a task is in the store
C8_Witness ==
    /\ resp.op = "convert_url" /\ resp.code = 200
    /\ ~IsBlank(resp.req) /\ extract_urls(resp.req) = <<>>
    /\ resp.data.total = 0
    /\ DOMAIN tasks # {}

\* C9: a poll of an identifier that is not in the store is answered not-found,
\* a poll of a known one with that task's total, completed, converted_text
\* and urls, and no step of a poll changes the store.
C9_PollAnswer ==
    [][/\ (poll'.pc # poll.pc \/ (resp' # resp /\ resp'.op = "progress")) => tasks' = tasks
       /\ (resp' # resp /\ resp'.op = "progress") =>
             IF resp'.req \in DOMAIN tasks
             THEN /\ resp'.code = 200
                  /\ resp'.data = [task_id |-> resp'.req,
                                   total |-> tasks[resp'.req].total,
                                   completed |-> tasks[resp'.req].completed,
                                   converted_text |-> tasks[resp'.req].converted_text,
                                   urls |-> tasks[resp'.req].urls]
             ELSE resp'.code = 404 /\ resp'.data = NoData]_vars

\* an unknown identifier has been answered not-found while a task is in the store
C9_Witness ==
    /\ resp.op = "progress" /\ resp.code = 404
    /\ resp.req \notin DOMAIN tasks
    /\ DOMAIN tasks # {}

\* C10: once the runner has been through its update for a failed result, the
\* task holds a record of that URL with status failed, converted_text still
\* contains the URL, and the runner goes on to the other URLs.
C10_FailureRecorded ==
    \A j \in Tasks :
        (run[j].last.status = "failed" /\ run[j].pc \in {"wait", "done", "dead"}) =>
            /\ \E k \in 1..Len(tasks[j].urls) :
                  /\ tasks[j].urls[k].kind = "dict"
                  /\ tasks[j].urls[k].original_url = run[j].last.original
                  /\ tasks[j].urls[k].status = "failed"
            /\ Contains(tasks[j].converted_text, run[j].last.original)
            /\ run[j].pc # "dead"

\* C11 as stated: at the step in which submit returns, no worker of the task
\* has produced an outcome.
C11_ReturnsBeforeAnyOutcome ==
    [][\A j \in Ids :
          (~run[j].returned /\ run'[j].returned /\ run[j].kind = "task")
              => Finished(j) = {}]_vars

\* C11 amended: submit never waits: from the creation of the task on its
\* return is possible in every state, whatever the runner and the workers
\* have done, and what it returns is the task id, the total, the extracted
\* URLs and the submitted text.
C11_SubmitNeverWaits ==
    \A j \in Tasks :
        /\ ~run[j].returned => ENABLED SubmitReturn(j)
        /\ (run[j].returned /\ resp.op = "convert_url" /\ resp.code = 200
                /\ resp.data.task_id = j)
              => resp.data = [task_id |-> j, total |-> tasks[j].total,
                              urls |-> tasks[j].urls,
                              converted_text |-> run[j].text]

\* submit has not returned yet, one worker of its task is still fetching and
\* another has already produced its outcome
C11_Witness ==
    \E j \in Tasks :
        /\ ~run[j].returned
        /\ \E i \in 1..Len(wk[j]) : wk[j][i].st = "fetch"
        /\ \E i \in 1..Len(wk[j]) : wk[j][i].st = "done"

\* C12: in every state at most DefaultMaxWorkers workers of one generator are
\* in their fetch or upload, whatever the number of URLs; a queued worker
\* starts only in a state with fewer than that many running, and one beyond
\* the first DefaultMaxWorkers only after some worker has finished.
C12_PoolBounded ==
    [][\A j \in Ids :
          /\ Cardinality({i \in 1..Len(wk'[j]) : wk'[j][i].st \in {"fetch", "upload"}})
                 <= DefaultMaxWorkers
          /\ \A i \in 1..Len(wk[j]) :
                (Len(wk'[j]) = Len(wk[j]) /\ wk[j][i].st = "queued" /\ wk'[j][i].st # "queued")
                    => /\ Cardinality(Running(j)) < DefaultMaxWorkers
                       /\ i > DefaultMaxWorkers => Finished(j) # {}]_vars

\* six URLs: five workers are running and the sixth is queued
C12_Witness ==
    \E j \in Ids :
        /\ Len(wk[j]) = 6
        /\ Cardinality(Running(j)) = DefaultMaxWorkers
        /\ wk[j][6].st = "queued"

\* C13: no object key has had an object put under it more than once, so no
\* upload has replaced the object of an earlier one.
C13_KeysNeverReused ==
    \A key \in DOMAIN objects : objects[key] <= 1

\* a match of the URL pattern starts at i: a scheme followed by a character
\* of the class, not inside the run of an earlier scheme
IsMatchStart(text, i) ==
    /\ text[i] = "H"
    /\ i + 1 <= Len(text) /\ ~IsDelim(text[i + 1])
    /\ ~\E p \in 1..(i - 1) :
           text[p] = "H" /\ \A k \in (p + 1)..i : ~IsDelim(text[k])

MatchStarts(text) == {i \in 1..Len(text) : IsMatchStart(text, i)}

\* the match that starts at i: up to the next excluded character or the end
MatchAt(text, i) ==
    SubSeq(text, i, CHOOSE e \in i..Len(text) :
                        /\ \A k \in (i + 1)..e : ~IsDelim(text[k])
                        /\ e = Len(text) \/ IsDelim(text[e + 1]))

\* where the URL url is first matched in text
FirstMatch(text, url) ==
    CHOOSE i \in MatchStarts(text) :
        /\ MatchAt(text, i) = url
        /\ \A p \in MatchStarts(text) : MatchAt(text, p) = url => i <= p

\* urls is the list of the URLs matched in text, each once, in the order of
\* their first matches
IsFirstOccurrenceList(text, urls) ==
    /\ \A k, l \in 1..Len(urls) : urls[k] = urls[l] => k = l
    /\ {urls[k] : k \in 1..Len(urls)} = {MatchAt(text, i) : i \in MatchStarts(text)}
    /\ \A k, l \in 1..Len(urls) :
          k < l => FirstMatch(text, urls[k]) < FirstMatch(text, urls[l])
    /\ text = <<>> => urls = <<>>

\* C14: for every submitted text extract_urls gives the URLs matched in it
\* with no duplicate, in the order of their first matches, and nothing for
\* the empty text; a task's urls is this list and its total the list's
\* length, and a text answered with total 0 has no match.
C14_ExtractDedupOrdered ==
    /\ resp.op = "convert_url" => IsFirstOccurrenceList(resp.req, extract_urls(resp.req))
    /\ (resp.op = "convert_url" /\ resp.code = 200 /\ resp.data.total = 0)
           => MatchStarts(resp.req) = {}
    /\ \A j \in DOMAIN tasks :
          /\ \A k \in 1..Len(tasks[j].urls) : tasks[j].urls[k].kind = "str"
          /\ IsFirstOccurrenceList(run[j].text,
                                   [k \in 1..Len(tasks[j].urls) |-> tasks[j].urls[k].str])
          /\ tasks[j].total = Len(tasks[j].urls)
          /\ tasks[j].total =
                Cardinality({MatchAt(run[j].text, i) : i \in MatchStarts(run[j].text)})

\* a task of a text with three matches, the third a repeat of the first
C14_Witness ==
    \E j \in DOMAIN tasks :
        /\ Len(FindAllFrom(run[j].text, 1)) = 3
        /\ FindAllFrom(run[j].text, 1)[1] = FindAllFrom(run[j].text, 1)[3]
        /\ tasks[j].total = 2
        /\ run[j].returned

C16_OneFetchOneUpload ==
    \A j \in Ids : \A i \in 1..Len(wk[j]) :
        LET w == wk[j][i] IN
        /\ w.fetches <= 1 /\ w.uploads <= 1 /\ w.uploads <= w.fetches
        /\ w.st \in {"queued", "fetch"} => w.fetches = 0 /\ w.uploads = 0
        /\ w.st = "upload" => w.fetches = 1 /\ w.uploads = 0
        /\ (w.st \in {"done", "raised"} /\ w.result.status # "skipped") => w.fetches = 1
        /\ w.result.status = "skipped" => w.fetches = 0 /\ w.uploads = 0
        /\ w.result.error = "download failed" => w.result.status = "failed" /\ w.uploads = 0
        /\ w.result.status = "success" => w.fetches = 1 /\ w.uploads = 1

\* of two workers of one run, one has failed in its fetch and made no upload
\* and the other has fetched and uploaded
C16_Witness ==
    \E j \in Ids : \E i, k \in 1..Len(wk[j]) :
        /\ wk[j][i].st = "done" /\ wk[j][i].result.error = "download failed"
        /\ wk[j][i].fetches = 1 /\ wk[j][i].uploads = 0
        /\ wk[j][k].result.status = "success" /\ wk[j][k].uploads = 1

\* C17: the lock is held only by a runner inside its update, which can
\* always finish the update and so release the lock, whatever the workers
\* are doing; no runner that has ended holds it; whenever the lock is free
\* a poll of any identifier can take it, and a poll that has its snapshot
\* goes on to its response without the lock.
C17_PollNeverBlocked ==
    /\ lock # 0 =>
          /\ lock \in Ids
          /\ run[lock].kind = "task" /\ run[lock].pc = "crit"
          /\ ENABLED RunnerCritical(lock)
    /\ \A j \in Ids : run[j].pc # "crit" => lock # j
    /\ (lock = 0 /\ poll.pc = "idle") => \A id \in PollIds : ENABLED PollGet(id)
    /\ poll.pc = "total" => ENABLED PollTotal
    /\ poll.pc = "completed" => ENABLED PollCompleted
    /\ poll.pc = "text" => ENABLED PollText
    /\ poll.pc = "urls" => ENABLED PollUrls

\* a poll of a task has been answered while the task's runner is dead of a
\* fault inside its update and a worker of the task is still in its fetch
C17_Witness ==
    \E j \in Tasks :
        /\ run[j].pc = "dead"
        /\ \E i \in 1..Len(wk[j]) : wk[j][i].st = "fetch"
        /\ lock = 0
        /\ resp.op = "progress" /\ resp.code = 200 /\ resp.req = j

\* C18: when one worker of a task never returns, every other worker has
\* finished and the runner has nothing left it can do (it has ended, or it
\* waits and no finished result is left to take), the result of every other
\* URL has been emitted and the task holds a record of that URL with a
\* terminal status.
C18_OthersReachTerminal ==
    \A j \in Tasks : \A i \in 1..Len(wk[j]) :
        ( /\ wk[j][i].st \in {"fetch", "upload"}
          /\ \A k \in 1..Len(wk[j]) : k # i => wk[j][k].st \in {"done", "raised"}
          /\ \/ run[j].pc \in {"done", "dead"}
             \/ run[j].pc = "wait" /\ Ready(j) = {} )
        => \A k \in 1..Len(wk[j]) : k # i =>
              /\ wk[j][k].yielded
              /\ \E n \in 1..Len(tasks[j].urls) :
                    /\ IsTerminal(tasks[j].urls[n])
                    /\ tasks[j].urls[n].original_url = wk[j][k].url

\* C19: a step of the submission or of the runner of one task leaves the
\* record of every other task as it is and removes none; no two runners are
\* inside their updates at the same time, and the runner inside its update
\* is the holder of the lock.
C19_TasksIndependent ==
    [][\A a, b \in TwoIds :
          a # b =>
            /\ (run'[a] # run[a] /\ b \in DOMAIN tasks)
                  => b \in DOMAIN tasks' /\ tasks'[b] = tasks[b]
            /\ ~(run'[a].pc = "crit" /\ run'[b].pc = "crit")
            /\ run'[a].pc = "crit" => lock' = a]_vars

\* two tasks: the runner of one is inside its update and the runner of the
\* other waits for the lock
C19_Witness ==
    \E a, b \in TwoIds :
        /\ a # b
        /\ {a, b} \subseteq DOMAIN tasks
        /\ run[a].pc = "crit" /\ lock = a
        /\ run[b].pc = "lock"

\* the replacements of a list of results made one after the other
RECURSIVE ApplyAll(_, _)
ApplyAll(text, results) ==
    IF results = <<>> THEN text
    ELSE ApplyAll(ApplyResult(text, Head(results)), Tail(results))

\* the results of the workers of j in the order of extraction
ResultsInOrder(j) == [i \in 1..Len(wk[j]) |-> FutureResult(wk[j][i])]

\* C20: once a consumer has taken the results of all the URLs of its text,
\* its converted_text is the one the same results give when taken in the
\* order of extraction, so it is the same for every order of emission.
C20_OrderIndependent ==
    \A j \in Ids :
        (run[j].kind # "none" /\ wk[j] # <<>> /\ Len(run[j].emitted) = Len(wk[j]))
            => run[j].converted_text = ApplyAll(run[j].text, ResultsInOrder(j))

====
